---------------------------- MODULE Spec2Model ----------------------------
(***************************************************************************)
(* Model of the muc soundboard core: AudioManager (src/src/audio_manager.py)*)
(* driven by a caller thread and by the hotkey listener thread of          *)
(* Soundboard (src/src/soundboard.py).                                      *)
(*                                                                         *)
(* AudioManager keeps no stream of its own: playback state lives in the    *)
(* sounddevice module (sd), whose module-level reference to the last       *)
(* started stream is modelled by last_callback.  sd.play(data, ...) runs   *)
(* stop(); stream = OutputStream(...); stream.start(); last_callback = ctx *)
(* without any lock, so these are separate steps of the calling thread.    *)
(* sd.get_stream() returns the last stream and raises RuntimeError when    *)
(* play() was never called.                                                *)
(***************************************************************************)
EXTENDS Integers, Sequences, FiniteSets, TLC

\* ------------------------------------------------------------------ bounds
\* Streams that may be started in one behaviour.
MaxStreams == 2
\* Channel-adapter inputs: rows per buffer, widest source, largest target.
Frames == 2
MaxSource == 3
MaxTarget == 4
MaxListeners == 2

\* ------------------------------------------------------------ value domains
\* Python's None where the value is otherwise a string.
None == "None"
\* output_device_id = None, and sounddevice having no last stream.
NoDeviceId == -1
NoStream == 0
Threads == {"caller", "listener"}

\* A Python float: a number of hundredths (the percentage set_volume
\* prints, line 133), or NaN.  FullVolume is the 1.0 of line 132.
FullVolume == 100
Num(n) == [nan |-> FALSE, n |-> n]
NaN == [nan |-> TRUE, n |-> 0]
VolumeArgs == {Num(0 - 500), Num(0), Num(50), Num(FullVolume), Num(500), NaN}

\* Python's < on floats: every comparison with NaN is False.
Lt(a, b) == ~a.nan /\ ~b.nan /\ a.n < b.n
\* Python's min(a, b) and max(a, b): the first argument unless the second
\* one is strictly smaller (larger).
PyMin(a, b) == IF Lt(b, a) THEN b ELSE a
PyMax(a, b) == IF Lt(a, b) THEN b ELSE a

\* Audio files on disk: existence, decodability, channel count as read.
Files == {"mono", "stereo", "corrupt", "missing"}
Exists(f) == f # "missing"
Decodable(f) == f \in {"mono", "stereo"}
FileChannels(f) == IF f = "mono" THEN 1 ELSE 2

\* A device enumeration: max_output_channels per index (ids start at 0).
\* Nothing plugged in, an input-only device, or a stereo output device.
DeviceLists == {<<>>, <<0>>, <<2>>}
\* The ids a caller may ask for: id 1 is never enumerated.
DeviceIds == {0, 1}

\* Exceptions the audio backend raises.  A PortAudioError carries a text
\* that does ("PortAudioError:device") or does not ("PortAudioError:other")
\* contain "device" or "stream", the test of line 245.
BackendErrors == {"PortAudioError:device", "PortAudioError:other", "OSError", "RuntimeError"}

\* ---------------------------------------------------------- ChannelAdapter
Samples == {0 - 1, 1}
RECURSIVE Tile(_, _)
\* np.tile(row, k) on one row.
Tile(row, k) == IF k <= 0 THEN <<>> ELSE row \o Tile(row, k - 1)
\* np.zeros: a row of n zero samples.
Zeros(n) == [i \in 1..n |-> 0]
\* data.shape[1]
Shape1(data) == Len(data[1])

\* _adjust_channels without the padding of lines 154-158.
_adjust_channels_nopad(data, max_channels) ==
    IF Shape1(data) < max_channels
    THEN LET tile_count == max_channels \div Shape1(data)
         IN  [r \in DOMAIN data |-> Tile(data[r], tile_count)]
    ELSE IF Shape1(data) > max_channels
    THEN [r \in DOMAIN data |-> SubSeq(data[r], 1, max_channels)]
    ELSE data

_adjust_channels(data, max_channels) ==
    IF Shape1(data) < max_channels
    THEN LET tile_count == max_channels \div Shape1(data)
             tiled == [r \in DOMAIN data |-> Tile(data[r], tile_count)]
             current_channels == Shape1(tiled)
         IN  IF current_channels < max_channels
             THEN [r \in DOMAIN data |->
                      tiled[r] \o Zeros(max_channels - current_channels)]
             ELSE tiled
    ELSE IF Shape1(data) > max_channels
    THEN [r \in DOMAIN data |-> SubSeq(data[r], 1, max_channels)]
    ELSE data

\* All frames x S buffers, 1 <= S <= MaxSource.
Rows(S) == [1..S -> Samples]
Buffers == UNION {[1..Frames -> Rows(S)] : S \in 1..MaxSource}
\* The buffer sf.read yields for a decodable file (mono already reshaped
\* to one column).
FileData(f) == [r \in 1..Frames |-> [c \in 1..FileChannels(f) |-> 1]]


\* ------------------------------------------------------- Soundboard domains
\* A path under sounds_dir: directory, Path.stem and Path.suffix.  A stem is
\* the tuple of its letters, so that sorted() can compare two names.
File(d, n, e) == [dir |-> d, stem |-> n, ext |-> e]
NoPath == File("", <<>>, "")
\* Two files with one stem, one of them with an upper-case suffix, a file
\* with another stem and a file whose suffix is not an audio suffix.
Paths == {File("", <<2>>, ".wav"), File("loops", <<2>>, ".WAV"),
          File("", <<1, 2>>, ".ogg"), File("", <<1>>, ".txt")}
Stems == {p.stem : p \in Paths}
\* validators.SUPPORTED_FORMATS.
SUPPORTED_FORMATS == {".wav", ".ogg"}
\* str.lower() on a suffix.
Lower(e) == IF e = ".WAV" THEN ".wav" ELSE e
\* validators.validate_audio_file_safe: FileInfo.error of a file that is not
\* valid, which may be empty.
ValidationErrors == {None, "Corrupted"}
\* dict: the mapping m with m[k] = v.
Put(m, k, v) == [x \in (DOMAIN m) \cup {k} |-> IF x = k THEN v ELSE m[x]]
\* dict.get(k), with NoPath for Python's None.
Get(m, k) == IF k \in DOMAIN m THEN m[k] ELSE NoPath
NoEntries == <<>>
NoListener == 0


\* ------------------------------------------------------------------- state
VARIABLES
    output_device_id,  \* AudioManager.output_device_id: NoDeviceId or a device id
    volume,            \* AudioManager.volume, a float
    devices,           \* what sd.query_devices() enumerates right now
    last_callback,     \* sounddevice's last started stream: NoStream or its index
    streams,           \* every stream opened so far: [active, scale]
    pc,                \* per thread: where it is inside play_audio
    file,              \* per thread: audio_file of the running play_audio
    blocking,          \* per thread: blocking of the running play_audio
    call_volume,       \* per thread: volume at entry of the running play_audio
    data,              \* per thread: the adapted, scaled buffer [cols, scale]
    ctx,               \* per thread: the stream sd.play has just started
    result,            \* per thread: outcome of its last finished operation
    adapt_in,          \* _adjust_channels: the arguments of its call
    adapt_out,         \* _adjust_channels: what the call returned
    dir_exists,        \* whether Soundboard.sounds_dir exists on disk
    disk,              \* per path under sounds_dir: absent, valid or invalid
    sounds,            \* Soundboard.sounds: sound name -> path
    invalid_files,     \* Soundboard.invalid_files: list of [path, error]
    scan_todo,         \* _scan_sounds: what rglob has not yielded yet
    hotkeys,           \* Soundboard.hotkeys: key combination -> sound name
    listener,          \* Soundboard.listener: NoListener or its index
    listeners,         \* every GlobalHotKeys made so far: [running, handlers]
    played             \* the path the last hotkey handler gave to play_audio

engine == <<output_device_id, volume>>
backend == <<last_callback, streams>>
locals == <<file, blocking, call_volume, data, ctx>>
adapt == <<adapt_in, adapt_out>>
catalog == <<sounds, invalid_files>>
folder == <<dir_exists, disk>>
dispatch == <<hotkeys, listener, listeners, played>>
board == <<dir_exists, disk, sounds, invalid_files, scan_todo, hotkeys,
           listener, listeners, played>>
vars == <<output_device_id, volume, devices, last_callback, streams, pc,
          file, blocking, call_volume, data, ctx, result, adapt_in, adapt_out,
          dir_exists, disk, sounds, invalid_files, scan_todo, hotkeys,
          listener, listeners, played>>

NoData == [cols |-> 0, scale |-> 0]
NoCall == [called |-> FALSE, raised |-> FALSE]

\* AudioManager.__init__ and the idle backend.
InitAudio ==
    /\ output_device_id = NoDeviceId
    /\ volume = Num(FullVolume)
    /\ devices \in DeviceLists
    /\ last_callback = NoStream
    /\ streams = <<>>
    /\ pc = [t \in Threads |-> "idle"]
    /\ file = [t \in Threads |-> None]
    /\ blocking = [t \in Threads |-> FALSE]
    /\ call_volume = [t \in Threads |-> Num(0)]
    /\ data = [t \in Threads |-> NoData]
    /\ ctx = [t \in Threads |-> NoStream]
    /\ result = [t \in Threads |-> "none"]
    /\ adapt_in = NoCall
    /\ adapt_out = NoCall

\* Soundboard.__init__ (lines 38-46) over a directory that holds no file yet:
\* its _scan_sounds finds nothing.
InitBoard ==
    /\ sounds = NoEntries
    /\ invalid_files = <<>>
    /\ scan_todo = {}
    /\ hotkeys = NoEntries
    /\ listener = NoListener
    /\ listeners = <<>>
    /\ played = NoPath

Init ==
    /\ InitAudio
    /\ InitBoard
    /\ dir_exists = FALSE
    /\ disk = [p \in Paths |-> "absent"]

\* ---------------------------------------------------------- DeviceRegistry
\* validators.validate_device: the outcome for a device id.
validate_device(id) ==
    IF id \notin 0..(Len(devices) - 1) THEN "DeviceNotFound"
    ELSE IF devices[id + 1] = 0 THEN "DeviceNoOutput"
    ELSE "ok"

\* ------------------------------------------------------- sounddevice state
Active(i) == i \in DOMAIN streams /\ streams[i].active
ActiveStreams == {i \in DOMAIN streams : streams[i].active}
\* sd.stop(): stop and close the last started stream, if any.
Stopped == IF last_callback = NoStream THEN streams
           ELSE [streams EXCEPT ![last_callback].active = FALSE]
\* Threads inside play_audio.
InFlight == {t \in Threads : pc[t] # "idle"}

\* --------------------------------------------------------------- play_audio
\* Leave the running operation of thread t with outcome r.
Return(t, r) ==
    /\ pc' = [pc EXCEPT ![t] = "idle"]
    /\ result' = [result EXCEPT ![t] = r]
    /\ file' = [file EXCEPT ![t] = None]
    /\ blocking' = [blocking EXCEPT ![t] = FALSE]
    /\ call_volume' = [call_volume EXCEPT ![t] = Num(0)]
    /\ data' = [data EXCEPT ![t] = NoData]
    /\ ctx' = [ctx EXCEPT ![t] = NoStream]

\* Handled without the test of the error text (line 245).
Handled_any_portaudio(e) ==
    IF e \in {"PortAudioError:device", "PortAudioError:other"}
    THEN "DeviceDisconnected" ELSE "Error"

\* The except clauses of play_audio without the one for sd.PortAudioError
\* (lines 243-254): the exception leaves play_audio.
Handled_portaudio_uncaught(e) ==
    IF e \in {"PortAudioError:device", "PortAudioError:other"}
    THEN "raised:PortAudioError" ELSE "Error"

\* The except clauses of play_audio (lines 243-258) applied to a backend
\* exception e raised inside its try block.
Handled(e) ==
    IF e = "PortAudioError:device" THEN "DeviceDisconnected" ELSE "Error"

\* PlayRejection without the re-validation of lines 189-196.
PlayRejection_unvalidated(f) ==
    IF output_device_id = NoDeviceId THEN "NoDevice"
    ELSE IF ~Exists(f) THEN "FileNotFound"
    ELSE "ok"

\* Lines 177-196: the checks before the try block.
PlayRejection(f) ==
    IF output_device_id = NoDeviceId THEN "NoDevice"
    ELSE IF ~Exists(f) THEN "FileNotFound"
    ELSE validate_device(output_device_id)

\* play_audio with self.stop_audio() moved in front of its checks.
PlayBegin_stop_first(t, f, b) ==
    /\ pc[t] = "idle"
    /\ Len(streams) + Cardinality(InFlight) < MaxStreams
    /\ streams' = Stopped
    /\ IF PlayRejection(f) # "ok"
       THEN Return(t, PlayRejection(f))
       ELSE /\ pc' = [pc EXCEPT ![t] = "load"]
            /\ file' = [file EXCEPT ![t] = f]
            /\ blocking' = [blocking EXCEPT ![t] = b]
            /\ call_volume' = [call_volume EXCEPT ![t] = volume]
            /\ result' = [result EXCEPT ![t] = "pending"]
            /\ UNCHANGED <<data, ctx>>
    /\ UNCHANGED <<engine, devices, last_callback, adapt, board>>

\* play_audio(f, blocking=b) is entered by thread t.
PlayBegin(t, f, b) ==
    /\ pc[t] = "idle"
    /\ Len(streams) + Cardinality(InFlight) < MaxStreams
    /\ IF PlayRejection(f) # "ok"
       THEN Return(t, PlayRejection(f))
       ELSE /\ pc' = [pc EXCEPT ![t] = "stop_audio"]
            /\ file' = [file EXCEPT ![t] = f]
            /\ blocking' = [blocking EXCEPT ![t] = b]
            /\ call_volume' = [call_volume EXCEPT ![t] = volume]
            /\ result' = [result EXCEPT ![t] = "pending"]
            /\ UNCHANGED <<data, ctx>>
    /\ UNCHANGED <<engine, devices, backend, adapt, board>>

\* Line 200: self.stop_audio() inside the try block.  stop_audio swallows
\* OSError and RuntimeError (line 270); anything else reaches play_audio's
\* own except clauses.
PlayStopAudio(t) ==
    /\ pc[t] = "stop_audio"
    /\ \/ /\ streams' = Stopped
          /\ pc' = [pc EXCEPT ![t] = "load"]
          /\ UNCHANGED <<result, locals>>
       \/ /\ last_callback # NoStream
          /\ \E e \in BackendErrors :
                IF e \in {"OSError", "RuntimeError"}
                THEN /\ pc' = [pc EXCEPT ![t] = "load"]
                     /\ UNCHANGED <<result, locals>>
                ELSE Return(t, Handled(e))
          /\ UNCHANGED streams
    /\ UNCHANGED <<engine, devices, last_callback, adapt, board>>

\* Lines 205-224: sf.read, reshape, sd.query_devices, _adjust_channels and
\* data *= self.volume.
PlayLoad(t) ==
    /\ pc[t] = "load"
    /\ IF ~Decodable(file[t])
       THEN Return(t, "AudioFileCorrupted")
       ELSE IF output_device_id \notin 0..(Len(devices) - 1)
       THEN Return(t, Handled("PortAudioError:device"))
       ELSE /\ data' = [data EXCEPT ![t] =
                  [cols |-> Shape1(_adjust_channels(FileData(file[t]),
                                                    devices[output_device_id + 1])),
                   scale |-> volume.n]]
            /\ pc' = [pc EXCEPT ![t] = "sd_stop"]
            /\ file' = [file EXCEPT ![t] = None]
            /\ call_volume' = [call_volume EXCEPT ![t] = Num(0)]
            /\ UNCHANGED <<result, blocking, ctx>>
    /\ UNCHANGED <<engine, devices, backend, adapt, board>>

\* Line 227, sd.play, first step: stop() of the previous stream.
SdPlayStop(t) ==
    /\ pc[t] = "sd_stop"
    /\ \/ /\ streams' = Stopped
          /\ pc' = [pc EXCEPT ![t] = "sd_open"]
          /\ UNCHANGED <<result, locals>>
       \/ /\ last_callback # NoStream
          /\ \E e \in BackendErrors : Return(t, Handled(e))
          /\ UNCHANGED streams
    /\ UNCHANGED <<engine, devices, last_callback, adapt, board>>

\* The device can take the buffer of thread t.
CanOpen(t) ==
    /\ output_device_id \in 0..(Len(devices) - 1)
    /\ data[t].cols > 0
    /\ data[t].cols <= devices[output_device_id + 1]

\* Line 227, sd.play, second step: the new OutputStream is opened and
\* started.
SdPlayOpenStarts(t) ==
    /\ pc[t] = "sd_open"
    /\ CanOpen(t)
    /\ streams' = Append(streams, [active |-> TRUE, scale |-> data[t].scale])
    /\ ctx' = [ctx EXCEPT ![t] = Len(streams) + 1]
    /\ pc' = [pc EXCEPT ![t] = "sd_last"]
    /\ data' = [data EXCEPT ![t] = NoData]
    /\ UNCHANGED <<result, file, blocking, call_volume>>
    /\ UNCHANGED <<engine, devices, last_callback, adapt, board>>

\* Line 227, sd.play, second step: opening or starting raises e, which
\* play_audio's except clauses turn into a False return.
SdPlayOpenFails(t, e) ==
    /\ pc[t] = "sd_open"
    /\ Return(t, Handled(e))
    /\ UNCHANGED <<engine, devices, backend, adapt, board>>

SdPlayOpen(t) ==
    \/ SdPlayOpenStarts(t)
    \/ \E e \in BackendErrors : SdPlayOpenFails(t, e)

\* Line 227, sd.play, last step: the new stream becomes the last stream.
\* Without blocking play_audio returns True (lines 259-263).
SdPlaySetLast(t) ==
    /\ pc[t] = "sd_last"
    /\ last_callback' = ctx[t]
    /\ IF blocking[t]
       THEN /\ pc' = [pc EXCEPT ![t] = "wait"]
            /\ UNCHANGED <<result, locals>>
       ELSE Return(t, "True")
    /\ UNCHANGED <<engine, devices, streams, adapt, board>>

\* The poll loop left at once, whatever the stream does.
PlayWait_no_poll(t) ==
    /\ pc[t] = "wait"
    /\ Return(t, "True")
    /\ UNCHANGED <<engine, devices, backend, adapt, board>>

\* Lines 229-232: the poll loop ends once the last stream is not active.
PlayWait(t) ==
    /\ pc[t] = "wait"
    /\ ~Active(last_callback)
    /\ Return(t, "True")
    /\ UNCHANGED <<engine, devices, backend, adapt, board>>

\* Ctrl+C while the caller sleeps between two polls (line 232):
\* KeyboardInterrupt is none of the exceptions play_audio catches and leaves
\* it.  Soundboard.play_all_sounds then stops the stream before it raises
\* again (soundboard.py, lines 224-227); a caller of play_sound does not.
PlayWaitInterrupted ==
    /\ pc["caller"] = "wait"
    /\ \/ UNCHANGED streams
       \/ streams' = Stopped
    /\ Return("caller", "KeyboardInterrupt")
    /\ UNCHANGED <<engine, devices, last_callback, adapt, board>>

\* ------------------------------------------------------ caller operations
\* play_audio called by the caller (directly or through play_sound).
Play == \E f \in Files, b \in BOOLEAN : PlayBegin("caller", f, b)

\* The handler with a blocking play_audio.
HotkeyHandler_blocking == \E f \in Files : PlayBegin("listener", f, TRUE)

\* Soundboard._create_hotkey_handler.handler on the listener thread: a
\* non-blocking play_audio of the file the catalog holds for the key.
HotkeyHandler == \E f \in Files : PlayBegin("listener", f, FALSE)

\* AudioManager.stop_audio called by the caller.  A teardown that raises
\* leaves the stream as it was; only OSError and RuntimeError are caught
\* (line 270), any other exception leaves stop_audio.
stop_audio ==
    /\ pc["caller"] = "idle"
    /\ \/ /\ streams' = Stopped
          /\ result' = [result EXCEPT !["caller"] = "stop_audio:returned"]
       \/ /\ last_callback # NoStream
          /\ UNCHANGED streams
          /\ \E e \in BackendErrors :
                result' = [result EXCEPT !["caller"] =
                    IF e \in {"OSError", "RuntimeError"}
                    THEN "stop_audio:returned" ELSE "stop_audio:raised"]
    /\ UNCHANGED <<engine, devices, last_callback, pc, locals, adapt, board>>

\* AudioManager.is_playing called by the caller.  sd.get_stream() raises
\* RuntimeError while no stream was ever started, and line 281 lets it pass.
is_playing ==
    /\ pc["caller"] = "idle"
    /\ result' = [result EXCEPT !["caller"] =
           IF last_callback = NoStream THEN "is_playing:RuntimeError"
           ELSE IF streams[last_callback].active THEN "is_playing:True"
           ELSE "is_playing:False"]
    /\ UNCHANGED <<engine, devices, backend, pc, locals, adapt, board>>

\* set_volume without the lower clamp max(0.0, ...).
set_volume_no_floor(v) ==
    /\ pc["caller"] = "idle"
    /\ volume' = PyMin(Num(FullVolume), v)
    /\ UNCHANGED <<output_device_id, devices, backend, pc, locals, result, adapt, board>>

\* set_volume that also rescales the samples of the stream being played.
set_volume_live(v) ==
    /\ pc["caller"] = "idle"
    /\ volume' = PyMax(Num(0), PyMin(Num(FullVolume), v))
    /\ streams' = [i \in DOMAIN streams |->
                      IF i = last_callback
                      THEN [streams[i] EXCEPT !.scale = volume'.n]
                      ELSE streams[i]]
    /\ UNCHANGED <<output_device_id, devices, last_callback, pc, locals,
                   result, adapt, board>>

\* AudioManager.set_volume(v) called by the caller.
set_volume(v) ==
    /\ pc["caller"] = "idle"
    /\ volume' = PyMax(Num(0), PyMin(Num(FullVolume), v))
    /\ UNCHANGED <<output_device_id, devices, backend, pc, locals, result, adapt, board>>

\* AudioManager.set_output_device(id) called by the caller.
set_output_device(id) ==
    /\ pc["caller"] = "idle"
    /\ IF validate_device(id) = "ok"
       THEN /\ output_device_id' = id
            /\ result' = [result EXCEPT !["caller"] = "set_output_device:True"]
       ELSE /\ UNCHANGED output_device_id
            /\ result' = [result EXCEPT !["caller"] = "set_output_device:False"]
    /\ UNCHANGED <<volume, devices, backend, pc, locals, adapt, board>>

\* ------------------------------------------------------------- environment
\* A stream plays its last frame.
StreamEnds ==
    /\ \E i \in ActiveStreams : streams' = [streams EXCEPT ![i].active = FALSE]
    /\ UNCHANGED <<engine, devices, last_callback, pc, locals, result, adapt, board>>

\* Devices are plugged in or out between two queries.
DevicesChange ==
    /\ \E d \in DeviceLists \ {devices} : devices' = d
    /\ UNCHANGED <<engine, backend, pc, locals, result, adapt, board>>

PlayStep == \E t \in Threads :
    \/ PlayStopAudio(t)
    \/ PlayLoad(t)
    \/ SdPlayStop(t)
    \/ SdPlayOpen(t)
    \/ SdPlaySetLast(t)
    \/ PlayWait(t)

Next ==
    \/ Play
    \/ HotkeyHandler
    \/ PlayStep
    \/ PlayWaitInterrupted
    \/ stop_audio
    \/ is_playing
    \/ \E v \in VolumeArgs : set_volume(v)
    \/ \E id \in DeviceIds : set_output_device(id)
    \/ StreamEnds
    \/ DevicesChange

Spec == Init /\ [][Next]_vars

\* ------------------------------------------- ChannelAdapter specification
\* One application of _adjust_channels to a buffer B and a target T.
adjust_channels_call(B, T) ==
    /\ ~adapt_in.called
    /\ adapt_in' = [called |-> TRUE, data |-> B, max_channels |-> T]
    /\ adapt_out' = [called |-> TRUE, raised |-> FALSE,
                     data |-> _adjust_channels(B, T)]
    /\ UNCHANGED <<engine, devices, backend, pc, locals, result, board>>

NextAdapt == \E B \in Buffers, T \in 0..MaxTarget : adjust_channels_call(B, T)

SpecAdapt == Init /\ [][NextAdapt]_vars


\* ------------------------------------------------------------ SoundCatalog
audio == <<engine, devices, backend, locals, adapt>>

\* What sounds_dir.rglob("*") yields.
Present == {p \in Paths : disk[p] # "absent"}

\* _scan_sounds over a directory that does not exist (lines 49-54): it warns
\* and returns.
ScanMissingDir ==
    /\ pc["caller"] = "idle"
    /\ ~dir_exists
    /\ result' = [result EXCEPT !["caller"] = "scan:no_directory"]
    /\ UNCHANGED <<audio, pc, folder, catalog, scan_todo, dispatch>>

\* _scan_sounds up to its loop, emptying sounds as well as invalid_files.
ScanBegin_clearing ==
    /\ pc["caller"] = "idle"
    /\ dir_exists
    /\ invalid_files' = <<>>
    /\ sounds' = NoEntries
    /\ scan_todo' = Present
    /\ pc' = [pc EXCEPT !["caller"] = "scan"]
    /\ result' = [result EXCEPT !["caller"] = "pending"]
    /\ UNCHANGED <<audio, folder, dispatch>>

\* _scan_sounds up to its loop (lines 56-60): invalid_files is emptied,
\* sounds is left as it is.
ScanBegin ==
    /\ pc["caller"] = "idle"
    /\ dir_exists
    /\ invalid_files' = <<>>
    /\ scan_todo' = Present
    /\ pc' = [pc EXCEPT !["caller"] = "scan"]
    /\ result' = [result EXCEPT !["caller"] = "pending"]
    /\ UNCHANGED <<audio, folder, sounds, dispatch>>

\* One iteration of the loop (lines 60-73) over the file p, whose
\* validation error is e when it is not valid.
ScanVisit(p, e) ==
    /\ pc["caller"] = "scan"
    /\ p \in scan_todo
    /\ scan_todo' = scan_todo \ {p}
    /\ IF Lower(p.ext) \notin SUPPORTED_FORMATS
       THEN UNCHANGED catalog
       ELSE IF disk[p] = "valid"
       THEN /\ sounds' = Put(sounds, p.stem, p)
            /\ UNCHANGED invalid_files
       ELSE /\ invalid_files' = Append(invalid_files,
                [path |-> p,
                 error |-> IF e = None THEN "Unknown error" ELSE e])
            /\ UNCHANGED sounds
    /\ UNCHANGED <<audio, pc, result, folder, dispatch>>

\* The loop is exhausted and _scan_sounds prints its summary (lines 75-94).
ScanFinish ==
    /\ pc["caller"] = "scan"
    /\ scan_todo = {}
    /\ pc' = [pc EXCEPT !["caller"] = "idle"]
    /\ result' = [result EXCEPT !["caller"] = "scan:done"]
    /\ UNCHANGED <<audio, folder, catalog, scan_todo, dispatch>>

\* _scan_sounds past the test of line 50.
ScanDirectory ==
    \/ ScanBegin
    \/ \E p \in Paths, e \in ValidationErrors : ScanVisit(p, e)
    \/ ScanFinish

_scan_sounds ==
    \/ ScanMissingDir
    \/ ScanDirectory

\* A file under sounds_dir is written, damaged, repaired or deleted while
\* no scan is walking the directory.
DiskChange ==
    /\ pc["caller"] = "idle"
    /\ dir_exists
    /\ \E p \in Paths, st \in {"absent", "valid", "invalid"} :
          /\ disk[p] # st
          /\ disk' = [disk EXCEPT ![p] = st]
    /\ UNCHANGED <<audio, pc, result, dir_exists, catalog, scan_todo, dispatch>>

\* sounds_dir is deleted with all it holds.
RemoveDir ==
    /\ pc["caller"] = "idle"
    /\ dir_exists
    /\ dir_exists' = FALSE
    /\ disk' = [p \in Paths |-> "absent"]
    /\ UNCHANGED <<audio, pc, result, catalog, scan_todo, dispatch>>

\* sounds_dir is created, empty.
MakeDir ==
    /\ ~dir_exists
    /\ dir_exists' = TRUE
    /\ UNCHANGED <<audio, pc, result, disk, catalog, scan_todo, dispatch>>

\* The handler _create_hotkey_handler(sound_name) returns, run on the
\* listener thread (lines 136-139): the lookup, and the path given to
\* play_audio, NoPath when the handler plays nothing.
handler(sound_name) ==
    /\ played' = Get(sounds, sound_name)
    /\ UNCHANGED <<audio, pc, result, folder, catalog, scan_todo, hotkeys,
                   listener, listeners>>


\* -------------------------------------------------------- HotkeyDispatcher
\* function_keys of setup_default_hotkeys (line 99).
function_keys == <<"<f1>", "<f2>", "<f3>", "<f4>", "<f5>",
                   "<f6>", "<f7>", "<f8>", "<f9>", "<f10>">>
\* The slice bound of sound_names[:10] (line 103).
DefaultSlots == 10
\* The key combinations set_hotkey is called with.
Keys == {"<f1>", "<f10>"}

\* Python's order on str: a < b.
RECURSIVE StrLess(_, _)
StrLess(a, b) ==
    IF b = <<>> THEN FALSE
    ELSE IF a = <<>> THEN TRUE
    ELSE IF Head(a) # Head(b) THEN Head(a) < Head(b)
    ELSE StrLess(Tail(a), Tail(b))

\* sorted with reverse=True.
RECURSIVE sorted_reverse(_)
sorted_reverse(S) ==
    IF S = {} THEN <<>>
    ELSE LET m == CHOOSE x \in S : \A y \in S \ {x} : StrLess(y, x)
         IN  <<m>> \o sorted_reverse(S \ {m})

\* sorted(S) for a set S of names.
RECURSIVE sorted(_)
sorted(S) ==
    IF S = {} THEN <<>>
    ELSE LET m == CHOOSE x \in S : \A y \in S \ {x} : StrLess(x, y)
         IN  <<m>> \o sorted(S \ {m})

\* sound_names[:k].
Slice(q, k) == SubSeq(q, 1, IF Len(q) < k THEN Len(q) ELSE k)

\* The loop of setup_default_hotkeys (lines 103-104) over the names q.
DefaultBindings(h, q) ==
    [k \in (DOMAIN h) \cup {function_keys[i] : i \in DOMAIN q} |->
        IF \E i \in DOMAIN q : function_keys[i] = k
        THEN q[CHOOSE i \in DOMAIN q : function_keys[i] = k]
        ELSE h[k]]

\* Soundboard.setup_default_hotkeys called by the caller.
setup_default_hotkeys ==
    /\ pc["caller"] = "idle"
    /\ hotkeys' = DefaultBindings(hotkeys,
                     Slice(sorted(DOMAIN sounds), DefaultSlots))
    /\ result' = [result EXCEPT !["caller"] = "setup_default_hotkeys:done"]
    /\ UNCHANGED <<audio, pc, folder, catalog, scan_todo, listener,
                   listeners, played>>

\* set_hotkey without the test of line 116.
set_hotkey_unchecked(key, sound_name) ==
    /\ pc["caller"] = "idle"
    /\ hotkeys' = Put(hotkeys, key, sound_name)
    /\ result' = [result EXCEPT !["caller"] = "set_hotkey:True"]
    /\ UNCHANGED <<audio, pc, folder, catalog, scan_todo, listener,
                   listeners, played>>

\* Soundboard.set_hotkey(key, sound_name) called by the caller.
set_hotkey(key, sound_name) ==
    /\ pc["caller"] = "idle"
    /\ IF sound_name \notin DOMAIN sounds
       THEN /\ UNCHANGED hotkeys
            /\ result' = [result EXCEPT !["caller"] = "set_hotkey:False"]
       ELSE /\ hotkeys' = Put(hotkeys, key, sound_name)
            /\ result' = [result EXCEPT !["caller"] = "set_hotkey:True"]
    /\ UNCHANGED <<audio, pc, folder, catalog, scan_todo, listener,
                   listeners, played>>

\* listener.stop() on the listener self.listener refers to, if any
\* (lines 170-172): the listeners after stop_listening.
StoppedListeners ==
    [i \in DOMAIN listeners |->
        IF i = listener THEN [running |-> FALSE, handlers |-> NoEntries]
        ELSE listeners[i]]

\* How lines 160-162 can end: both calls succeed, GlobalHotKeys(handlers)
\* raises, or listener.start() raises; OSError and RuntimeError are caught.
StartOutcomes == {"started", "constructor_raised", "start_raised"}

\* start_listening without the stop_listening() of line 158.
start_listening_no_teardown ==
    /\ pc["caller"] = "idle"
    /\ IF hotkeys = NoEntries
       THEN /\ result' = [result EXCEPT
                             !["caller"] = "start_listening:no_hotkeys"]
            /\ UNCHANGED <<listener, listeners>>
       ELSE /\ Len(listeners) < MaxListeners
            /\ \E o \in StartOutcomes :
                  /\ result' = [result EXCEPT
                                   !["caller"] = "start_listening:" \o o]
                  /\ IF o = "constructor_raised"
                     THEN UNCHANGED <<listener, listeners>>
                     ELSE /\ listeners' = Append(listeners,
                                [running |-> (o = "started"),
                                 handlers |-> hotkeys])
                          /\ listener' = Len(listeners) + 1
    /\ UNCHANGED <<audio, pc, folder, catalog, scan_todo, hotkeys, played>>

\* Soundboard.start_listening called by the caller.
start_listening ==
    /\ pc["caller"] = "idle"
    /\ IF hotkeys = NoEntries
       THEN /\ result' = [result EXCEPT
                             !["caller"] = "start_listening:no_hotkeys"]
            /\ UNCHANGED <<listener, listeners>>
       ELSE /\ Len(listeners) < MaxListeners
            /\ \E o \in StartOutcomes :
                  /\ result' = [result EXCEPT
                                   !["caller"] = "start_listening:" \o o]
                  /\ IF o = "constructor_raised"
                     THEN /\ listeners' = StoppedListeners
                          /\ listener' = NoListener
                     ELSE /\ listeners' = Append(StoppedListeners,
                                [running |-> (o = "started"),
                                 handlers |-> hotkeys])
                          /\ listener' = Len(listeners) + 1
    /\ UNCHANGED <<audio, pc, folder, catalog, scan_todo, hotkeys, played>>

\* Soundboard.stop_listening called by the caller.
stop_listening ==
    /\ pc["caller"] = "idle"
    /\ listeners' = StoppedListeners
    /\ listener' = NoListener
    /\ result' = [result EXCEPT !["caller"] = "stop_listening:done"]
    /\ UNCHANGED <<audio, pc, folder, catalog, scan_todo, hotkeys, played>>

\* A listener that looks the pressed key up in self.hotkeys.
KeyPressed_live ==
    \E i \in DOMAIN listeners :
        /\ listeners[i].running
        /\ \E k \in DOMAIN hotkeys : handler(hotkeys[k])

\* The OS reports a registered key combination to a running listener, which
\* runs the handler it holds for it.
KeyPressed ==
    \E i \in DOMAIN listeners :
        /\ listeners[i].running
        /\ \E k \in DOMAIN listeners[i].handlers :
              handler(listeners[i].handlers[k])

\* The catalog while files come and go and the directory is scanned again.
NextCatalog ==
    \/ _scan_sounds
    \/ DiskChange
    \/ RemoveDir
    \/ MakeDir

SpecCatalog == Init /\ [][NextCatalog]_vars

\* Files were put into sounds_dir after the soundboard was constructed.
InitHotkeys ==
    /\ InitAudio
    /\ InitBoard
    /\ dir_exists = TRUE
    /\ disk \in {d \in [Paths -> {"valid", "invalid"}] :
                    \A p \in Paths :
                        Lower(p.ext) \notin SUPPORTED_FORMATS => d[p] = "valid"}

\* The bindings and the listener over a directory that no longer changes.
NextHotkeys ==
    \/ ScanDirectory
    \/ setup_default_hotkeys
    \/ \E k \in Keys, n \in Stems : set_hotkey(k, n)
    \/ start_listening
    \/ stop_listening
    \/ KeyPressed

SpecHotkeys == InitHotkeys /\ [][NextHotkeys]_vars


\* A directory of eleven sounds, one more than setup_default_hotkeys binds.
LibraryStems == {<<1>>, <<1, 1>>, <<1, 2>>, <<1, 2, 3>>, <<1, 3>>, <<2>>,
                 <<2, 1>>, <<2, 2>>, <<3>>, <<3, 1>>, <<3, 3>>}
Library == {File("", n, ".wav") : n \in LibraryStems}

\* Soundboard.__init__ over a directory that holds some of the files of the
\* library, all of them valid: its _scan_sounds has put each under its stem.
InitDefaults ==
    /\ InitAudio
    /\ dir_exists = TRUE
    /\ \E V \in SUBSET Library :
          /\ disk = [p \in Library |-> IF p \in V THEN "valid" ELSE "absent"]
          /\ sounds = [n \in {p.stem : p \in V} |-> File("", n, ".wav")]
    /\ invalid_files = <<>>
    /\ scan_todo = {}
    /\ hotkeys = NoEntries
    /\ listener = NoListener
    /\ listeners = <<>>
    /\ played = NoPath

\* The default bindings, after at most one binding made by hand.
NextDefaults ==
    \/ setup_default_hotkeys
    \/ /\ hotkeys = NoEntries
       /\ \E k \in Keys, n \in LibraryStems : set_hotkey(k, n)

SpecDefaults == InitDefaults /\ [][NextDefaults]_vars


\* The bindings while audio files come and go and the directory is scanned
\* again; files that are no audio files stay away.
NextBindings ==
    \/ _scan_sounds
    \/ /\ DiskChange
       /\ \A p \in Paths :
             Lower(p.ext) \notin SUPPORTED_FORMATS => disk'[p] = "absent"
    \/ RemoveDir
    \/ MakeDir
    \/ setup_default_hotkeys
    \/ \E k \in Keys, n \in Stems : set_hotkey(k, n)

SpecBindings == Init /\ [][NextBindings]_vars


\* ==================================================================== claims

\* C1: in every reachable state at most one output stream is active, under
\* any interleaving of play() calls of the caller and of hotkey handlers
\* with stop() and natural stream end.
C1_AtMostOneActiveStream == Cardinality(ActiveStreams) <= 1

\* C2: once two play() calls that both succeeded have returned, only the
\* stream of the later request (the last stream) is active.
C2_OnlyLaterStreamActive ==
    (\A t \in Threads : pc[t] = "idle" /\ result[t] = "True")
        => ActiveStreams \subseteq {last_callback}

\* C3: play() of an existing file on a selected device id that is absent
\* from the current enumeration fails with DeviceNotFound, and with
\* DeviceNoOutput when the device has no output channel; it opens no
\* stream, so an Idle session stays Idle.
C3_AbsentDeviceRejected ==
    [][\A t \in Threads, f \in Files, b \in BOOLEAN :
          (/\ PlayBegin(t, f, b)
           /\ output_device_id # NoDeviceId
           /\ Exists(f)
           /\ \/ output_device_id >= Len(devices)
              \/ devices[output_device_id + 1] = 0)
          => /\ result'[t] = IF output_device_id >= Len(devices)
                             THEN "DeviceNotFound" ELSE "DeviceNoOutput"
             /\ pc'[t] = "idle"
             /\ UNCHANGED <<last_callback, streams>>
             /\ (ActiveStreams = {} => ActiveStreams' = {})]_vars

C3_Witness ==
    /\ result["listener"] = "DeviceNotFound"
    /\ output_device_id = 0
    /\ devices = <<>>
    /\ ActiveStreams = {}

C5_StopNeverPropagates ==
    [][stop_audio
          => /\ result'["caller"] = "stop_audio:returned"
             /\ (last_callback # NoStream => ~streams'[last_callback].active)]_vars

\* C6: isPlaying() returns true exactly when a stream exists and is active,
\* and false otherwise, also when no stream was ever started.
C6_IsPlayingReflectsActivity ==
    [][is_playing
          => result'["caller"] =
                 IF last_callback # NoStream /\ streams[last_callback].active
                 THEN "is_playing:True" ELSE "is_playing:False"]_vars

\* C7: the volume always lies in [0.0, 1.0]; setVolume(v) stores 0.0 for
\* v < 0, 1.0 for v > 1 and v itself for 0 <= v <= 1.
C7_VolumeClamped ==
    [][/\ ~volume'.nan /\ volume'.n >= 0 /\ volume'.n <= FullVolume
       /\ \A v \in VolumeArgs :
             (set_volume(v) /\ ~v.nan)
             => volume' = IF v.n < 0 THEN Num(0)
                          ELSE IF v.n > FullVolume THEN Num(FullVolume)
                          ELSE v]_vars

C7_Witness == volume = Num(50)

\* C8 as claimed: a stream plays at the volume that was current when its
\* play() started.
C8_ScaleIsVolumeAtCall ==
    [][\A t \in Threads :
          (pc[t] = "load" /\ pc'[t] = "sd_stop")
          => data'[t].scale = call_volume[t].n]_vars

\* C8 as amended: setVolume(v) leaves every stream and every already
\* scaled buffer unchanged, and a stream's scale never changes; a stream
\* plays at the volume that was current when its play() scaled the samples
\* (line 224), right before the stream is started.
C8_VolumeAppliedAtScaling ==
    [][/\ \A v \in VolumeArgs : set_volume(v) => UNCHANGED <<streams, data>>
       /\ \A i \in DOMAIN streams : streams'[i].scale = streams[i].scale
       /\ \A t \in Threads :
             /\ (pc[t] = "load" /\ pc'[t] = "sd_stop")
                => data'[t].scale = volume.n
             /\ (pc[t] = "sd_open" /\ pc'[t] = "sd_last")
                => streams'[ctx'[t]].scale = data[t].scale]_vars

\* An active stream keeps its scale after the volume was changed.
C8_Witness ==
    \E i \in ActiveStreams :
        streams[i].scale = FullVolume /\ volume = Num(50)

\* C9: for a frames x S buffer B and a target T > 0, adapt(B, T) has T
\* columns: column j is column j of B when S >= T; when S < T it is column
\* ((j - 1) mod S) + 1 of B for j within the floor(T/S) tiles and zero
\* after them.
AdaptExpected(B, T) ==
    LET S == Len(B[1])
    IN  [r \in DOMAIN B |->
            [j \in 1..T |->
                IF S >= T THEN B[r][j]
                ELSE IF j <= S * (T \div S) THEN B[r][((j - 1) % S) + 1]
                ELSE 0]]

C9_AdaptShape ==
    (adapt_in.called /\ adapt_in.max_channels > 0)
        => /\ ~adapt_out.raised
           /\ \A r \in DOMAIN adapt_out.data :
                 Len(adapt_out.data[r]) = adapt_in.max_channels
           /\ adapt_out.data = AdaptExpected(adapt_in.data, adapt_in.max_channels)

\* Two channels adapted to three: one tile and one silent column.
C9_Witness ==
    /\ adapt_in.called
    /\ Shape1(adapt_in.data) = 2
    /\ adapt_in.max_channels = 3
    /\ \A r \in DOMAIN adapt_out.data :
          adapt_out.data[r] = adapt_in.data[r] \o <<0>>

\* C10: adapt(buffer, 0) fails with an error instead of returning a buffer.
C10_ZeroTargetFails ==
    (adapt_in.called /\ adapt_in.max_channels = 0) => adapt_out.raised

\* ---------------------------------------------------------------- catalog
\* The audio files under sounds_dir that validate, and those that do not.
ValidFiles ==
    {p \in Present : Lower(p.ext) \in SUPPORTED_FORMATS /\ disk[p] = "valid"}
InvalidFiles ==
    {p \in Present : Lower(p.ext) \in SUPPORTED_FORMATS /\ disk[p] = "invalid"}
\* The paths the mapping holds and the paths the invalid list holds.
Playable == {sounds[n] : n \in DOMAIN sounds}
Rejected == {invalid_files[i].path : i \in DOMAIN invalid_files}

\* C11: when a scan completes, the name-to-path mapping holds exactly the
\* valid files the directory holds (each under its stem, one file per stem)
\* and the invalid list exactly the invalid ones, nothing surviving from an
\* earlier scan, also when the directory no longer exists.
C11_RescanReplacesCatalog ==
    [][(ScanFinish \/ ScanMissingDir) =>
          /\ Playable' \subseteq ValidFiles'
          /\ DOMAIN sounds' = {p.stem : p \in ValidFiles'}
          /\ \A n \in DOMAIN sounds' : sounds'[n].stem = n
          /\ Rejected' = InvalidFiles'
          /\ Len(invalid_files') = Cardinality(InvalidFiles')]_vars

\* The listeners whose handlers the OS may run.
Running == {i \in DOMAIN listeners : listeners[i].running}

\* C12: while a listener is running, whose handlers may look a name up at
\* any moment, a rescan that is still under way has changed neither the
\* mapping nor the invalid list: both are replaced together, when the scan
\* completes, so that a lookup sees the old pair or the new pair.
C12_LookupSeesWholeCatalog ==
    [][(Running # {} /\ pc'["caller"] = "scan") => UNCHANGED catalog]_vars

\* C13: between scans the invalid list records each of its files with a
\* reason and none of them is playable: no path of the invalid list is a
\* value of the name-to-path mapping.
C13_InvalidFilesNotPlayable ==
    pc["caller"] = "idle" =>
        /\ Playable \cap Rejected = {}
        /\ \A i \in DOMAIN invalid_files : invalid_files[i].error # None

\* --------------------------------------------------------------- bindings
\* The binding tables h and g agree on every key but k.
SameButFor(h, g, k) ==
    /\ (DOMAIN h) \ {k} = (DOMAIN g) \ {k}
    /\ \A j \in (DOMAIN h) \ {k} : h[j] = g[j]

\* C14: set_hotkey(key, name) with a name that is not in the catalog
\* returns False and leaves the binding table as it was; with a name of the
\* catalog it returns True, binds key to name and leaves the binding of
\* every other key as it was.
C14_BindChecksCatalog ==
    [][\A k \in Keys, n \in Stems :
          set_hotkey(k, n) =>
              IF n \in DOMAIN sounds
              THEN /\ result'["caller"] = "set_hotkey:True"
                   /\ k \in DOMAIN hotkeys'
                   /\ hotkeys'[k] = n
                   /\ SameButFor(hotkeys, hotkeys', k)
              ELSE /\ result'["caller"] = "set_hotkey:False"
                   /\ hotkeys' = hotkeys]_vars

\* A bind has failed on a table that holds bindings.
C14_Witness ==
    /\ result["caller"] = "set_hotkey:False"
    /\ DOMAIN hotkeys = Keys

\* The key F_i.
F(i) == function_keys[i]
\* name is the i-th of the set S of names in lexicographic order.
IsNth(name, i, S) ==
    /\ name \in S
    /\ Cardinality({m \in S : StrLess(m, name)}) = i - 1
\* Key k has the same binding, or none, in the tables h and g.
SameBinding(h, g, k) ==
    /\ k \in DOMAIN h <=> k \in DOMAIN g
    /\ k \in DOMAIN h => h[k] = g[k]

\* C15 as stated: after setup_default_hotkeys over a catalog of n sounds,
\* F_i is bound to the i-th name in lexicographic order for every
\* i <= min(n, 10), and the keys F_(n+1)..F10 are unbound.
C15_DefaultsLeaveRestUnbound ==
    [][setup_default_hotkeys =>
          \A i \in 1..DefaultSlots :
              IF i <= Cardinality(DOMAIN sounds)
              THEN /\ F(i) \in DOMAIN hotkeys'
                   /\ IsNth(hotkeys'[F(i)], i, DOMAIN sounds)
              ELSE F(i) \notin DOMAIN hotkeys']_vars

\* C15, amended: after setup_default_hotkeys over a catalog of n sounds,
\* F_i is bound to the i-th name in lexicographic order for every
\* i <= min(n, 10), and every other key, F_(n+1)..F10 among them, has the
\* binding it had before the call, or none if it had none.
C15_DefaultsKeepRest ==
    [][setup_default_hotkeys =>
          /\ \A i \in 1..DefaultSlots :
                IF i <= Cardinality(DOMAIN sounds)
                THEN /\ F(i) \in DOMAIN hotkeys'
                     /\ IsNth(hotkeys'[F(i)], i, DOMAIN sounds)
                ELSE SameBinding(hotkeys, hotkeys', F(i))
          /\ \A k \in (DOMAIN hotkeys \cup DOMAIN hotkeys') \
                          {F(i) : i \in 1..DefaultSlots} :
                SameBinding(hotkeys, hotkeys', k)]_vars

\* The defaults were set over fewer than ten sounds and F10 is bound.
C15_Witness ==
    /\ result["caller"] = "setup_default_hotkeys:done"
    /\ Cardinality(DOMAIN sounds) \in 2..(DefaultSlots - 1)
    /\ F(DefaultSlots) \in DOMAIN hotkeys
    /\ F(2) \in DOMAIN hotkeys

\* --------------------------------------------------------------- listener
\* C16: after any sequence of start_listening and stop_listening calls at
\* most one listener is running, and it is the one self.listener refers to;
\* start_listening leaves no listener running that ran before it, and
\* stop_listening leaves none running and changes nothing when there is no
\* listener.
C16_AtMostOneListener ==
    [][/\ Cardinality(Running') <= 1
       /\ Running' \subseteq {listener'}
       /\ start_listening => Running \cap Running' = {}
       /\ stop_listening =>
             /\ Running' = {}
             /\ listener = NoListener => UNCHANGED <<listener, listeners>>]_vars

\* A second listener runs after the first one was torn down.
C16_Witness ==
    /\ Len(listeners) = MaxListeners
    /\ ~listeners[1].running
    /\ Running = {MaxListeners}

\* ---------------------------------------------------------------- handler
\* C17: the play_audio of a hotkey handler is not blocking: on the listener
\* thread it never waits for a stream to end, it returns True as soon as
\* sd.play has started the stream, and whenever the listener thread is idle
\* the next hotkey event can be handled, whether a stream is playing or not.
C17_HandlerDoesNotWait ==
    [][/\ pc'["listener"] # "wait"
       /\ SdPlaySetLast("listener") =>
             /\ pc'["listener"] = "idle"
             /\ result'["listener"] = "True"
       /\ (/\ pc["listener"] = "idle"
           /\ Len(streams) + Cardinality(InFlight) < MaxStreams)
             => ENABLED HotkeyHandler]_vars

\* A hotkey event is being handled while a stream is still playing, the
\* caller having done no more than select the device.
C17_Witness ==
    /\ result["caller"] = "set_output_device:True"
    /\ pc["caller"] = "idle"
    /\ pc["listener"] = "stop_audio"
    /\ Active(last_callback)

\* ----------------------------------------------------------------- errors
\* What play_audio returns with: True, or False after the message of the
\* named condition.
PlayReturns == {"True", "NoDevice", "FileNotFound", "DeviceNotFound",
                "DeviceNoOutput", "AudioFileCorrupted", "DeviceDisconnected",
                "Error"}
\* A step of play_audio on thread t, an interruption by Ctrl+C aside.
PlayAudioStep(t) ==
    \/ \E f \in Files, b \in BOOLEAN : PlayBegin(t, f, b)
    \/ PlayStopAudio(t)
    \/ PlayLoad(t)
    \/ SdPlayStop(t)
    \/ SdPlayOpen(t)
    \/ SdPlaySetLast(t)
    \/ PlayWait(t)

\* C18: play_audio and set_output_device end with a return value whatever
\* fails: a device that is absent or has no output makes both return False,
\* a file that does not decode makes play_audio return False as
\* AudioFileCorrupted, a device lost when the stream is opened makes it
\* return False as DeviceDisconnected; and once the caller is back, the
\* next play_audio is accepted.
C18_ErrorsBecomeReturnValues ==
    [][/\ \A t \in Threads :
             PlayAudioStep(t) =>
                 /\ pc'[t] = "idle" => result'[t] \in PlayReturns
                 /\ pc'[t] # "idle" => result'[t] = "pending"
                 /\ (PlayLoad(t) /\ ~Decodable(file[t]))
                       => result'[t] = "AudioFileCorrupted"
                 /\ (\E f \in Files, b \in BOOLEAN : PlayBegin(t, f, b)) =>
                       \/ validate_device(output_device_id) = "ok"
                       \/ result'[t] \in {"NoDevice", "FileNotFound",
                                          "DeviceNotFound", "DeviceNoOutput"}
                 /\ SdPlayOpenFails(t, "PortAudioError:device")
                       => result'[t] = "DeviceDisconnected"
       /\ \A id \in DeviceIds :
             set_output_device(id) =>
                 IF validate_device(id) = "ok"
                 THEN result'["caller"] = "set_output_device:True"
                 ELSE /\ result'["caller"] = "set_output_device:False"
                      /\ UNCHANGED output_device_id
       /\ (/\ pc["caller"] = "idle"
           /\ Len(streams) + Cardinality(InFlight) < MaxStreams)
             => ENABLED Play]_vars

\* play_audio has returned False for a device lost at the opening of the
\* stream, and a stream started since is playing.
C18_Witness ==
    /\ result["caller"] = "DeviceDisconnected"
    /\ pc["caller"] = "idle"
    /\ Active(last_callback)

\* C19: a play_audio whose file does not decode stops no stream: it fails
\* at the decoding, before the session that is playing is stopped.
C19_CorruptFileStopsNothing ==
    [][\A t \in Threads :
          (PlayStopAudio(t) /\ ~Decodable(file[t])) => UNCHANGED streams]_vars

\* --------------------------------------------------------------- blocking
\* C20 as stated, the stream being the one the play_audio has started: a
\* blocking play_audio does not return True while its stream is active, and
\* once its stream has ended or was stopped the next poll lets it return.
C20_WaitsForOwnStream ==
    [][\A t \in Threads :
          /\ (pc[t] = "wait" /\ pc'[t] = "idle" /\ result'[t] = "True")
                => ~Active(ctx[t])
          /\ (pc[t] = "wait" /\ ~Active(ctx[t]))
                => ENABLED PlayWait(t)]_vars

\* C20, amended: a blocking play_audio returns True only in a state where
\* the stream sd.get_stream() yields, the last one started by any thread,
\* is not active; once that stream has ended or was stopped, the next poll
\* lets it return; and while it waits, Ctrl+C can take the caller out of
\* the wait, without a return value.
C20_WaitsForLastStream ==
    [][/\ \A t \in Threads :
             /\ (pc[t] = "wait" /\ pc'[t] = "idle" /\ result'[t] = "True")
                   => ~Active(last_callback)
             /\ (pc[t] = "wait" /\ ~Active(last_callback))
                   => ENABLED PlayWait(t)
       /\ pc["caller"] = "wait" => ENABLED PlayWaitInterrupted
       /\ PlayWaitInterrupted =>
             /\ pc'["caller"] = "idle"
             /\ result'["caller"] = "KeyboardInterrupt"]_vars

\* The caller waits in a blocking play_audio whose stream a hotkey play
\* has replaced by one that is still playing.
C20_Witness ==
    /\ pc["caller"] = "wait"
    /\ ctx["caller"] # last_callback
    /\ ~Active(ctx["caller"])
    /\ Active(last_callback)

\* ------------------------------------------------------------ rejections
\* C21: a play_audio that is rejected by the checks in front of its try
\* block (no device selected, no file at the path, device validation
\* failing) returns False and leaves every stream, the last started
\* stream, the selected device and the volume as they were.
C21_RejectedPlayChangesNothing ==
    [][\A t \in Threads, f \in Files, b \in BOOLEAN :
          (PlayBegin(t, f, b) /\ PlayRejection(f) # "ok") =>
              /\ pc'[t] = "idle"
              /\ result'[t] = PlayRejection(f)
              /\ UNCHANGED <<streams, last_callback, output_device_id,
                             volume>>]_vars

\* A play_audio of the caller was rejected for a missing file while a
\* sound is playing.
C21_Witness ==
    /\ result["caller"] = "FileNotFound"
    /\ pc["caller"] = "idle"
    /\ pc["listener"] = "idle"
    /\ Active(last_callback)

\* ------------------------------------------------------------ bound names
\* C22: in every state reached through set_hotkey, setup_default_hotkeys
\* and _scan_sounds, each sound name a key is bound to is a key of the
\* name-to-path mapping.
C22_BoundNamesAreInCatalog ==
    \A k \in DOMAIN hotkeys : hotkeys[k] \in DOMAIN sounds

\* After a rescan a key is bound to a name whose file is no longer in the
\* directory.
C22_Witness ==
    /\ pc["caller"] = "idle"
    /\ result["caller"] = "scan:done"
    /\ \E k \in DOMAIN hotkeys :
          /\ hotkeys[k] \in DOMAIN sounds
          /\ sounds[hotkeys[k]] \notin Present

\* --------------------------------------------------------------- dispatch
\* C23: a listener that start_listening has started holds the bindings of
\* that moment; set_hotkey and setup_default_hotkeys change no listener; a
\* key press makes a running listener play what the name it holds for the
\* key maps to in the catalog at the time of the press, and nothing when
\* the catalog has no such name.
C23_ListenerKeepsBindingsOfStart ==
    [][/\ (start_listening /\ listener' # NoListener)
             => listeners'[listener'].handlers = hotkeys
       /\ (setup_default_hotkeys \/ \E k \in Keys, n \in Stems : set_hotkey(k, n))
             => UNCHANGED <<listener, listeners>>
       /\ KeyPressed =>
             \E i \in Running : \E k \in DOMAIN listeners[i].handlers :
                played' = Get(sounds, listeners[i].handlers[k])]_vars

\* F1 was bound to another sound after the listener was started, and the
\* sound played is the one the listener holds for F1.
C23_Witness ==
    /\ listener \in Running
    /\ F(1) \in DOMAIN listeners[listener].handlers
    /\ F(1) \in DOMAIN hotkeys
    /\ hotkeys[F(1)] # listeners[listener].handlers[F(1)]
    /\ DOMAIN listeners[listener].handlers = {F(1)}
    /\ played # NoPath
    /\ played = Get(sounds, listeners[listener].handlers[F(1)])
    /\ played # Get(sounds, hotkeys[F(1)])

=============================================================================
